---- MODULE Spec2Model ----
(***************************************************************************)
(* Model of the variant derivation core of pydantic-morph:                 *)
(*   - DecomposedModel, Filter and Rename            (src/core.py)         *)
(*   - VariantPipe                                   (src/core.py)         *)
(*   - ConnectVariant          (src/transformers/connect_variant.py)       *)
(*   - MakeOptional                  (src/old/schema_variations.py)        *)
(* Python dicts are modelled as sequences of [k, v] entries with unique    *)
(* keys (insertion order is part of a dict's value); objects that are      *)
(* shared by reference live in heaps indexed by an object id.              *)
(***************************************************************************)
EXTENDS Integers, Sequences, FiniteSets, TLC

VARIABLES
    \* ---- field / schema descriptor world (src/core.py) ----
    origin_fields,   \* model_cls.model_fields : dict name -> FieldInfo id
    origin_config,   \* model_cls.model_config : dict key -> value
    fieldObjs,       \* heap of FieldInfo objects, id -> contents
    dm,              \* the DecomposedModel under transformation
    before,          \* the origin's metadata as it was when decompose ran
    last,            \* the last call made on the descriptor and its outcome
    \* ---- pipeline world (src/core.py) ----
    pipes,           \* heap of VariantPipe objects, id -> [step, next]
    roots,           \* ids of the pipelines the caller constructed
    items,           \* per constructed pipeline: what the caller added by then
    presult,         \* outcome of the last process / then call
    \* ---- connect world (src/transformers/connect_variant.py) ----
    attrs,           \* class attribute dictionaries of the origin types
    dicts,           \* heap of registry dict objects
    vroot,           \* _root_model attribute of each built variant type
    clast,           \* last sequential ConnectVariant call and its outcome
    ncalls,          \* number of sequential ConnectVariant calls made
    thr,             \* per thread: position and locals of a running call
    \* ---- MakeOptional world (src/old/schema_variations.py) ----
    mo_in,           \* the FieldData handed to MakeOptional.transform
    mo_excl,         \* MakeOptional.exclude_fields
    mo_once,         \* result of the first application
    mo_twice,        \* result of applying transform to mo_once
    mo_pc            \* how many applications have run

vars == <<origin_fields, origin_config, fieldObjs, dm, before, last,
          pipes, roots, items, presult,
          attrs, dicts, vroot, clast, ncalls, thr,
          mo_in, mo_excl, mo_once, mo_twice, mo_pc>>

fieldVars == <<origin_fields, origin_config, fieldObjs, dm, before, last>>
pipeVars == <<pipes, roots, items, presult>>
connectVars == <<attrs, dicts, vroot, clast, ncalls, thr>>
optVars == <<mo_in, mo_excl, mo_once, mo_twice, mo_pc>>

\* Python's None, as a dict key and as an absent reference.
None == "None"

\* An optional argument: {} is "not given" (None), {x} is the value x.
Opt(S) == {{}} \cup {{x} : x \in S}
Given(o) == o # {}
Val(o) == CHOOSE x \in o : TRUE

\* Python: sum(x is not None for x in [...])
CountGiven(os) == Cardinality({i \in DOMAIN os : Given(os[i])})

(***************************************************************************)
(* dict helpers                                                            *)
(***************************************************************************)
DictKeys(d) == {d[i].k : i \in DOMAIN d}

\* d.pop(key, None)
DictPop(d, key) == SelectSeq(d, LAMBDA e : e.k # key)

\* d[key] = value : an existing key keeps its position, a new one is appended
DictSet(d, key, value) ==
    IF key \in DictKeys(d)
    THEN [i \in DOMAIN d |-> IF d[i].k = key THEN [k |-> key, v |-> value] ELSE d[i]]
    ELSE Append(d, [k |-> key, v |-> value])

(***************************************************************************)
(* Field / schema descriptor world                                         *)
(***************************************************************************)
Names == {"a", "b", "c"}
Keys == Names \cup {None}
Defaults == {"Undefined", "None"}
ConfigKeys == {"extra"}
ConfigVals == {"ignore", "forbid"}

RECURSIVE DistinctSeqs(_, _)
DistinctSeqs(S, n) ==
    IF n = 0 THEN {<<>>}
    ELSE LET shorter == DistinctSeqs(S, n - 1)
         IN shorter \cup {Append(s, x) : s \in {t \in shorter : Len(t) = n - 1},
                                         x \in S}

NameOrders == {s \in DistinctSeqs(Names, Cardinality(Names)) :
                 \A i, j \in DOMAIN s : i # j => s[i] # s[j]}

NoTarget == [k \in Keys |-> k]

\* A record of one call: the operation, the exception it raised ("none" when
\* it returned normally), the mode the transformer was configured with, the
\* name set of a Filter, the keys of a Rename mapping that name a field of
\* the descriptor, and the name the configured renaming gives to each field
\* of the descriptor, by position.  For a constructor it also holds how many
\* of the mode arguments were not None, and whether the one given was an
\* empty set or an empty mapping.
NoCall == [op |-> "none", raised |-> "none", mode |-> "none",
           fset |-> {}, mkeys |-> {}, newnames |-> <<>>,
           given |-> 0, empty |-> FALSE]

\* copy(x) for a dict: a new dict object holding the same values (a shallow
\* copy: the FieldInfo ids are carried over, the objects are not duplicated)
ShallowCopy(d) == d

\* DecomposedModel.__init__
DecomposedModel_init(fields, config) ==
    [state |-> "decomposed",
     model_fields |-> ShallowCopy(fields),
     model_config |-> ShallowCopy(config)]

Decompose ==
    /\ dm' = DecomposedModel_init(origin_fields, origin_config)
    /\ before' = [fields |-> origin_fields, objs |-> fieldObjs,
                  config |-> origin_config]
    /\ last' = [NoCall EXCEPT !.op = "decompose"]
    /\ UNCHANGED <<origin_fields, origin_config, fieldObjs>>

(***************************************************************************)
(* Filter                                                                  *)
(***************************************************************************)
FilterSets == SUBSET Names

\* Filter.__init__ with the test weakened to "more than one mode": a
\* constructor that lets a Filter without any mode through
Filter_init_at_most_one(exclude, include_only, filter_func) ==
    IF CountGiven(<<exclude, include_only, filter_func>>) > 1
    THEN [raised |-> "ValueError", mode |-> "none", set |-> {}]
    ELSE IF Given(exclude)
         THEN [raised |-> "none", mode |-> "exclude", set |-> Val(exclude)]
         ELSE IF Given(include_only)
              THEN [raised |-> "none", mode |-> "include_only",
                    set |-> Val(include_only)]
              ELSE [raised |-> "none", mode |-> "filter_func",
                    set |-> IF Given(filter_func) THEN Val(filter_func) ELSE {}]

\* Filter.__init__: the ValueError test, then the filter lambda.  A
\* filter_func is given by the set of names it answers True for.
Filter_init(exclude, include_only, filter_func) ==
    IF CountGiven(<<exclude, include_only, filter_func>>) # 1
    THEN [raised |-> "ValueError", mode |-> "none", set |-> {}]
    ELSE IF Given(exclude)
         THEN [raised |-> "none", mode |-> "exclude", set |-> Val(exclude)]
         ELSE IF Given(include_only)
              THEN [raised |-> "none", mode |-> "include_only",
                    set |-> Val(include_only)]
              ELSE [raised |-> "none", mode |-> "filter_func",
                    set |-> Val(filter_func)]

\* self._filter_func(name, field): True means remove
Filter_func(flt, name) ==
    IF flt.mode = "include_only" THEN name \notin flt.set ELSE name \in flt.set

\* The for loop of Filter.__call__ over model_fields.items().  The dict
\* iterator remembers the dict's size at creation (used) and every fetch of
\* a next item first compares it with the current size: a pop made by the
\* loop body makes the following fetch raise RuntimeError, also when the
\* popped entry was the last one.
RECURSIVE Filter_loop(_, _, _, _)
Filter_loop(d, i, used, flt) ==
    IF Len(d) # used
    THEN [raised |-> "RuntimeError", fields |-> d]
    ELSE IF i > Len(d)
         THEN [raised |-> "none", fields |-> d]
         ELSE IF Filter_func(flt, d[i].k)
              THEN Filter_loop(DictPop(d, d[i].k), i + 1, used, flt)
              ELSE Filter_loop(d, i + 1, used, flt)

\* Filter.__call__
Filter_call(flt, fields) == Filter_loop(fields, 1, Len(fields), flt)

\* The constructor arguments tried: every way of giving at most one mode,
\* and the ways of giving several modes with values from a small sample
FilterSample == {{}, {"a"}}
FilterArgs ==
    {args \in Opt(FilterSets) \X Opt(FilterSets) \X Opt(FilterSets) :
        \/ CountGiven(args) <= 1
        \/ \A i \in 1 .. 3 : args[i] \subseteq FilterSample}

\* Filter(...)(dm): construction followed by the call
FilterCall ==
    /\ dm.state = "decomposed"
    /\ \E args \in FilterArgs :
          LET exclude == args[1]
              include_only == args[2]
              filter_func == args[3]
              flt == Filter_init(exclude, include_only, filter_func)
              res == Filter_call(flt, dm.model_fields)
          IN IF flt.raised # "none"
             THEN /\ last' = [NoCall EXCEPT !.op = "Filter.__init__",
                                            !.raised = flt.raised,
                                            !.given = CountGiven(args)]
                  /\ dm' = dm
             ELSE /\ last' = [NoCall EXCEPT !.op = "Filter", !.raised = res.raised,
                                            !.mode = flt.mode, !.fset = flt.set,
                                            !.given = CountGiven(args),
                                            !.empty = {} \in UNION {args[i] : i \in 1 .. 2}]
                  /\ dm' = [dm EXCEPT !.model_fields = res.fields]
    /\ UNCHANGED <<origin_fields, origin_config, fieldObjs, before>>

(***************************************************************************)
(* Rename                                                                  *)
(***************************************************************************)
Mappings == UNION {[D -> Names] : D \in SUBSET Names}
\* A rename_func gives every field name a name and leaves the key None alone
RenameFuncs == {[k \in Keys |-> IF k = None THEN None ELSE f[k]] :
                  f \in [Names -> Names]}

\* Rename.__init__: the ValueError test, then
\*   self._rename_func = rename_func if rename_func else mapping.get
\* mapping.get(key) answers None for a key the mapping does not hold.
Rename_init(mapping, rename_func) ==
    IF CountGiven(<<mapping, rename_func>>) # 1
    THEN [raised |-> "ValueError", mode |-> "none", mkeys |-> {},
          func |-> NoTarget]
    ELSE IF Given(rename_func)
         THEN [raised |-> "none", mode |-> "rename_func", mkeys |-> {},
               func |-> Val(rename_func)]
         ELSE [raised |-> "none", mode |-> "mapping",
               mkeys |-> DOMAIN Val(mapping),
               func |-> [k \in Keys |-> IF k \in DOMAIN Val(mapping)
                                        THEN Val(mapping)[k] ELSE None]]

\* The for loop of Rename.__call__: new_fields[new_name] = field
RECURSIVE Rename_loop(_, _, _, _)
Rename_loop(d, i, new_fields, rn) ==
    IF i > Len(d) THEN new_fields
    ELSE Rename_loop(d, i + 1, DictSet(new_fields, rn.func[d[i].k], d[i].v), rn)

\* Rename.__call__
Rename_call(rn, fields) == Rename_loop(fields, 1, <<>>, rn)

\* The constructor arguments tried: every way of giving at most one mode,
\* and both modes given with values from a small sample
RenameArgs ==
    {args \in Opt(Mappings) \X Opt(RenameFuncs) : CountGiven(args) <= 1}
    \cup {<<{m}, {f}>> : m \in {<<>>, [n \in {"a"} |-> "b"]},
                         f \in {[k \in Keys |-> "a"]}}

\* Rename(...)(dm): construction followed by the call
RenameCall ==
    /\ dm.state = "decomposed"
    /\ \E args \in RenameArgs :
          LET mapping == args[1]
              rename_func == args[2]
              rn == Rename_init(mapping, rename_func)
          IN IF rn.raised # "none"
             THEN /\ last' = [NoCall EXCEPT !.op = "Rename.__init__",
                                            !.raised = rn.raised,
                                            !.given = CountGiven(args)]
                  /\ dm' = dm
             ELSE /\ last' = [NoCall EXCEPT !.op = "Rename",
                                            !.mode = rn.mode,
                                            !.given = CountGiven(args),
                                            !.empty = (mapping = {<<>>}),
                                            !.mkeys = rn.mkeys \cap DictKeys(dm.model_fields),
                                            !.newnames =
                                               [i \in DOMAIN dm.model_fields |->
                                                  rn.func[dm.model_fields[i].k]]]
                  /\ dm' = [dm EXCEPT !.model_fields =
                                         Rename_call(rn, dm.model_fields)]
    /\ UNCHANGED <<origin_fields, origin_config, fieldObjs, before>>

(***************************************************************************)
(* Mutations a caller makes through the descriptor                         *)
(***************************************************************************)
\* dm.model_fields[name].default = value : the FieldInfo object the
\* descriptor's dict refers to is changed in place
MutateField ==
    /\ dm.state = "decomposed"
    /\ \E i \in DOMAIN dm.model_fields, value \in Defaults :
          /\ fieldObjs[dm.model_fields[i].v].default # value
          /\ fieldObjs' = [fieldObjs EXCEPT ![dm.model_fields[i].v].default = value]
    /\ last' = [NoCall EXCEPT !.op = "mutate_field"]
    /\ UNCHANGED <<origin_fields, origin_config, dm, before>>

\* dm.model_config[key] = value
SetConfig ==
    /\ dm.state = "decomposed"
    /\ \E key \in ConfigKeys, value \in ConfigVals :
          /\ dm.model_config[key] # value
          /\ dm' = [dm EXCEPT !.model_config[key] = value]
    /\ last' = [NoCall EXCEPT !.op = "set_config"]
    /\ UNCHANGED <<origin_fields, origin_config, fieldObjs, before>>

(***************************************************************************)
(* VariantPipe                                                             *)
(***************************************************************************)
MaxNodes == 3
Steps == {"f", "g"}

\* A null reference to a VariantPipe (self.next = None)
NoPipe == 0

\* What then is handed: a callable or a pipeline
AsStep(s) == [kind |-> "step", step |-> s, id |-> NoPipe]
AsPipe(q) == [kind |-> "pipe", step |-> None, id |-> q]

\* VariantPipe.__init__
VariantPipe_init(step) == [step |-> step, next |-> NoPipe]

\* VariantPipe.then, on the heap h.  The recursion follows self.next; on a
\* chain that loops back it never reaches a node whose next is None and
\* Python ends it with RecursionError.
RECURSIVE VariantPipe_then(_, _, _, _)
VariantPipe_then(h, self, x, seen) ==
    IF self \in seen
    THEN [raised |-> "RecursionError", heap |-> h]
    ELSE IF h[self].next = NoPipe
         THEN IF x.kind = "step"
              THEN [raised |-> "none",
                    heap |-> Append([h EXCEPT ![self].next = Len(h) + 1],
                                    VariantPipe_init(x.step))]
              ELSE [raised |-> "none", heap |-> [h EXCEPT ![self].next = x.id]]
         ELSE VariantPipe_then(h, h[self].next, x, seen \cup {self})

\* VariantPipe.process.  A step s maps the value obj to Append(obj, s), so
\* the value returned names the steps that ran, in the order they ran.
RECURSIVE VariantPipe_process(_, _, _, _)
VariantPipe_process(h, self, obj, seen) ==
    IF self \in seen
    THEN [raised |-> "RecursionError", out |-> obj]
    ELSE LET o1 == IF h[self].step # None THEN Append(obj, h[self].step) ELSE obj
         IN IF h[self].next # NoPipe
            THEN VariantPipe_process(h, h[self].next, o1, seen \cup {self})
            ELSE [raised |-> "none", out |-> o1]

\* The pipelines a caller named while building pipeline p
RECURSIVE Mentions(_, _)
Mentions(its, p) ==
    {p} \cup UNION {Mentions(its, its[p][i].id) :
                      i \in {j \in DOMAIN its[p] : its[p][j].kind = "pipe"}}

NoResult == [op |-> "none", pipe |-> NoPipe, raised |-> "none", out |-> <<>>]

\* p = VariantPipe(step) or VariantPipe()
NewPipe ==
    /\ Len(pipes) < MaxNodes
    /\ \E step \in Steps \cup {None} :
          pipes' = Append(pipes, VariantPipe_init(step))
    /\ roots' = roots \cup {Len(pipes) + 1}
    /\ items' = Append(items, <<>>)
    /\ presult' = [NoResult EXCEPT !.op = "new", !.pipe = Len(pipes) + 1]

\* p.then(step)
ThenStep ==
    /\ Len(pipes) < MaxNodes
    /\ \E p \in roots, s \in Steps :
          LET res == VariantPipe_then(pipes, p, AsStep(s), {})
          IN /\ pipes' = res.heap
             /\ items' = IF res.raised = "none"
                         THEN Append([items EXCEPT ![p] = Append(@, AsStep(s))], <<>>)
                         ELSE items
             /\ presult' = [NoResult EXCEPT !.op = "then", !.pipe = p,
                                            !.raised = res.raised]
    /\ UNCHANGED roots

\* p.then(q) for a pipeline q.  A caller does not add a pipeline to itself
\* or to one of the pipelines it was built from.
ThenPipe ==
    /\ \E p \in roots, q \in roots :
          /\ p \notin Mentions(items, q)
          /\ LET res == VariantPipe_then(pipes, p, AsPipe(q), {})
             IN /\ pipes' = res.heap
                /\ items' = IF res.raised = "none"
                            THEN [items EXCEPT ![p] = Append(@, AsPipe(q))]
                            ELSE items
                /\ presult' = [NoResult EXCEPT !.op = "then", !.pipe = p,
                                               !.raised = res.raised]
    /\ UNCHANGED roots

\* p.process(x)
Process ==
    /\ \E p \in roots :
          LET res == VariantPipe_process(pipes, p, <<>>, {})
          IN presult' = [op |-> "process", pipe |-> p, raised |-> res.raised,
                         out |-> res.out]
    /\ UNCHANGED <<pipes, roots, items>>

(***************************************************************************)
(* ConnectVariant                                                          *)
(***************************************************************************)
MaxCalls == 3
Origins == {"User", "Admin"}

\* class Admin(User): attribute lookup on Admin falls back to User
Base == [o \in Origins |-> IF o = "Admin" THEN "User" ELSE None]

VariantNames == {"Input", "Output", "variants"}
VariantTypes == {"V1", "V2"}

\* What a context's current_variant can be: a built type or the
\* DecomposedModel object of a context that was not built yet
DecomposedObj == "DecomposedModel"
Variants == VariantTypes \cup {DecomposedObj}

\* f"_{context.name}"
AliasOf(name) == "_" \o name
AttrNames == {"_variants"} \cup {AliasOf(n) : n \in VariantNames}

\* attribute values: nothing, a reference to a dict object, or a variant
Absent == [kind |-> "absent", dict |-> 0, type |-> None]
DictRef(i) == [kind |-> "dict", dict |-> i, type |-> None]
TypeRef(t) == [kind |-> "type", dict |-> 0, type |-> t]

EmptyDict == [n \in VariantNames |-> None]

\* getattr(cls, name) along the class hierarchy; Absent when hasattr is False
RECURSIVE Lookup(_, _, _)
Lookup(a, cls, name) ==
    IF a[cls][name] # Absent THEN a[cls][name]
    ELSE IF Base[cls] # None THEN Lookup(a, Base[cls], name)
         ELSE Absent

HasAttr(a, cls, name) == Lookup(a, cls, name) # Absent

\* The locals of one ConnectVariant.__call__: the transformer's settings, the
\* context, the position in the body, reg = the object the expression
\* context.original_model._variants evaluated to, raised = the exception
Frame(origin, name, variant, attach_directly, attach_base) ==
    [origin |-> origin, name |-> name, variant |-> variant,
     attach_directly |-> attach_directly, attach_base |-> attach_base,
     pc |-> "isinstance", missing |-> FALSE, reg |-> Absent, raised |-> "none"]

IdleFrame == [Frame("User", "Input", "V1", FALSE, FALSE) EXCEPT !.pc = "idle"]

World(a, d, r) == [attrs |-> a, dicts |-> d, vroot |-> r]

\* The isinstance test that opens ConnectVariant.__call__, without it
ConnectVariant_guard_missing(w, fr) ==
    [w |-> w, fr |-> [fr EXCEPT !.pc = "hasattr"]]

\* The isinstance test that opens ConnectVariant.__call__
ConnectVariant_guard(w, fr) ==
    IF fr.variant = DecomposedObj
    THEN [w |-> w, fr |-> [fr EXCEPT !.pc = "done", !.raised = "ValueError"]]
    ELSE [w |-> w, fr |-> [fr EXCEPT !.pc = "hasattr"]]

\* One step of ConnectVariant.__call__ from position fr.pc on world w
ConnectVariant_step(w, fr) ==
    CASE fr.pc = "isinstance" -> ConnectVariant_guard(w, fr)
      [] fr.pc = "hasattr" ->
           IF ~HasAttr(w.attrs, fr.origin, "_variants")
           THEN [w |-> w, fr |-> [fr EXCEPT !.pc = "create", !.missing = TRUE]]
           ELSE [w |-> w, fr |-> [fr EXCEPT !.pc = "load"]]
      [] fr.pc = "create" ->
           [w |-> [w EXCEPT !.dicts = Append(@, EmptyDict),
                            !.attrs[fr.origin]["_variants"] = DictRef(Len(w.dicts) + 1)],
            fr |-> [fr EXCEPT !.pc = "load"]]
      [] fr.pc = "load" ->
           [w |-> w,
            fr |-> [fr EXCEPT !.pc = "store",
                              !.reg = Lookup(w.attrs, fr.origin, "_variants")]]
      [] fr.pc = "store" ->
           IF fr.reg.kind = "dict"
           THEN [w |-> [w EXCEPT !.dicts[fr.reg.dict][fr.name] = fr.variant],
                 fr |-> [fr EXCEPT !.pc = "alias"]]
           ELSE [w |-> w, fr |-> [fr EXCEPT !.pc = "done", !.raised = "TypeError"]]
      [] fr.pc = "alias" ->
           IF fr.attach_directly
           THEN [w |-> [w EXCEPT !.attrs[fr.origin][AliasOf(fr.name)] =
                                     TypeRef(fr.variant)],
                 fr |-> [fr EXCEPT !.pc = "base"]]
           ELSE [w |-> w, fr |-> [fr EXCEPT !.pc = "base"]]
      [] fr.pc = "base" ->
           IF fr.attach_base
           THEN [w |-> [w EXCEPT !.vroot[fr.variant] = fr.origin],
                 fr |-> [fr EXCEPT !.pc = "done"]]
           ELSE [w |-> w, fr |-> [fr EXCEPT !.pc = "done"]]
      [] OTHER -> [w |-> w, fr |-> fr]

\* ConnectVariant.__call__ run from fr to its return or raise
RECURSIVE ConnectVariant_call(_, _)
ConnectVariant_call(w, fr) ==
    IF fr.pc = "done" THEN [w |-> w, fr |-> fr]
    ELSE LET nxt == ConnectVariant_step(w, fr)
         IN ConnectVariant_call(nxt.w, nxt.fr)

\* ConnectVariant(attach_directly, attach_base)(context), no other call running
Connect ==
    /\ ncalls < MaxCalls
    /\ ncalls' = ncalls + 1
    /\ \E origin \in Origins, name \in VariantNames, variant \in Variants,
          attach_directly \in BOOLEAN, attach_base \in BOOLEAN :
          LET res == ConnectVariant_call(World(attrs, dicts, vroot),
                        Frame(origin, name, variant, attach_directly, attach_base))
          IN /\ attrs' = res.w.attrs
             /\ dicts' = res.w.dicts
             /\ vroot' = res.w.vroot
             /\ clast' = [res.fr EXCEPT !.missing = FALSE, !.reg = Absent]
    /\ UNCHANGED thr

(***************************************************************************)
(* Two ConnectVariant calls running in two threads                         *)
(***************************************************************************)
Threads == {1, 2}

\* The variant a thread's derivation built
BuiltBy(t) == IF t = 1 THEN "V1" ELSE "V2"

\* The variant names the two derivations use
ThreadNames == {"Input", "Output"}

\* Thread t enters ConnectVariant.__call__ with a Built context
Begin(t) ==
    /\ thr[t].pc = "idle"
    /\ \E origin \in Origins, name \in ThreadNames,
          attach_directly \in BOOLEAN, attach_base \in BOOLEAN :
          thr' = [thr EXCEPT ![t] = Frame(origin, name, BuiltBy(t),
                                          attach_directly, attach_base)]
    /\ UNCHANGED <<attrs, dicts, vroot, clast, ncalls>>

\* Thread t runs the next step of its call
StepThread(t) ==
    /\ thr[t].pc \notin {"idle", "done"}
    /\ LET res == ConnectVariant_step(World(attrs, dicts, vroot), thr[t])
       IN /\ attrs' = res.w.attrs
          /\ dicts' = res.w.dicts
          /\ vroot' = res.w.vroot
          /\ thr' = [thr EXCEPT ![t] = res.fr]
    /\ UNCHANGED <<clast, ncalls>>

(***************************************************************************)
(* MakeOptional                                                            *)
(***************************************************************************)
BaseTypes == {"int", "str"}
Markers == {<<>>, <<"Filter(in)">>}
DefaultValues == {"Undefined", "None", "5"}
Factories == {None, "factory"}
Descriptions == {None, "doc"}

\* A type expression: a base type, possibly in a union with None
Annotations == [base : BaseTypes, nullable : BOOLEAN]

\* FieldInfo values; a field has a default or a default_factory, not both
FieldInfos ==
    {fi \in [annotation : Annotations, metadata : Markers,
             default : DefaultValues, default_factory : Factories,
             description : Descriptions] :
        fi.default = "Undefined" \/ fi.default_factory = None}

FieldDatas == [name : Names, field_info : FieldInfos]

\* Union[annotation, None]: a union that already holds None is not nested
UnionWithNone(annotation) == [annotation EXCEPT !.nullable = TRUE]

\* FieldInfo.is_required()
is_required(fi) == fi.default = "Undefined" /\ fi.default_factory = None

\* FieldInfo.from_annotated_attribute(annotation=Annotated[ann, *metadata]
\* or ann, default=default): a new FieldInfo holding the annotation, the
\* markers and the default, and nothing else of the field it replaces
from_annotated_attribute(annotation, metadata, default) ==
    [annotation |-> annotation, metadata |-> metadata, default |-> default,
     default_factory |-> None, description |-> None]

\* MakeOptional.transform without the test for an already optional field
MakeOptional_transform_always(exclude_fields, field) ==
    IF field.name \in exclude_fields THEN field
    ELSE [name |-> field.name,
          field_info |-> from_annotated_attribute(
                            UnionWithNone(field.field_info.annotation),
                            field.field_info.metadata, "None")]

\* MakeOptional.transform
MakeOptional_transform(exclude_fields, field) ==
    IF field.name \in exclude_fields THEN field
    ELSE IF ~is_required(field.field_info) THEN field
         ELSE [name |-> field.name,
               field_info |-> from_annotated_attribute(
                                 UnionWithNone(field.field_info.annotation),
                                 field.field_info.metadata, "None")]

\* once = MakeOptional(exclude).transform(field)
TransformOnce ==
    /\ mo_pc = 0
    /\ mo_once' = MakeOptional_transform(mo_excl, mo_in)
    /\ mo_pc' = 1
    /\ UNCHANGED <<mo_in, mo_excl, mo_twice>>

\* twice = MakeOptional(exclude).transform(once)
TransformTwice ==
    /\ mo_pc = 1
    /\ mo_twice' = MakeOptional_transform(mo_excl, mo_once)
    /\ mo_pc' = 2
    /\ UNCHANGED <<mo_in, mo_excl, mo_once>>

(***************************************************************************)
(* Initial states and specifications                                       *)
(***************************************************************************)
\* The origin's FieldInfo objects: entry i of model_fields refers to object i
FieldObjIds == 1 .. Cardinality(Names)

\* The origins tried: the fields a, b, c in every order, and the origins with
\* fewer fields a, b / a / none
OriginOrders == {s \in NameOrders : Len(s) = Cardinality(Names)}
                   \cup {<<"a", "b">>, <<"a">>, <<>>}
OriginDicts == {[i \in DOMAIN s |-> [k |-> s[i], v |-> i]] : s \in OriginOrders}

NoModel == [state |-> "none", model_fields |-> <<>>,
            model_config |-> [k \in ConfigKeys |-> "ignore"]]

FieldsIdle ==
    /\ origin_fields = <<>>
    /\ origin_config = [k \in ConfigKeys |-> "ignore"]
    /\ fieldObjs = [i \in FieldObjIds |-> [default |-> "Undefined"]]
    /\ dm = NoModel
    /\ before = [fields |-> <<>>, objs |-> fieldObjs, config |-> origin_config]
    /\ last = NoCall

PipesIdle ==
    /\ pipes = <<>>
    /\ roots = {}
    /\ items = <<>>
    /\ presult = NoResult

ConnectIdle ==
    /\ attrs = [o \in Origins |-> [n \in AttrNames |-> Absent]]
    /\ dicts = <<>>
    /\ vroot = [v \in Variants |-> None]
    /\ clast = IdleFrame
    /\ ncalls = 0
    /\ thr = [t \in Threads |-> IdleFrame]

OptIdle ==
    /\ mo_in = [name |-> "a",
                field_info |-> from_annotated_attribute(
                                  [base |-> "int", nullable |-> FALSE], <<>>,
                                  "Undefined")]
    /\ mo_excl = {}
    /\ mo_once = mo_in
    /\ mo_twice = mo_in
    /\ mo_pc = 0

\* ---- descriptors: decompose, then Filter and Rename calls ----
InitFields ==
    /\ origin_fields \in OriginDicts
    /\ origin_config = [k \in ConfigKeys |-> "ignore"]
    /\ fieldObjs = [i \in FieldObjIds |-> [default |-> "Undefined"]]
    /\ dm = NoModel
    /\ before = [fields |-> origin_fields, objs |-> fieldObjs,
                 config |-> origin_config]
    /\ last = NoCall
    /\ PipesIdle /\ ConnectIdle /\ OptIdle

NextFields ==
    /\ \/ Decompose
       \/ FilterCall
       \/ RenameCall
    /\ UNCHANGED <<pipeVars, connectVars, optVars>>

SpecFields == InitFields /\ [][NextFields]_vars

\* ---- an origin with two fields: decompose, then every kind of mutation ----
InitDecompose ==
    /\ origin_fields = <<[k |-> "a", v |-> 1], [k |-> "b", v |-> 2]>>
    /\ origin_config = [k \in ConfigKeys |-> "ignore"]
    /\ fieldObjs = [i \in FieldObjIds |-> [default |-> "Undefined"]]
    /\ dm = NoModel
    /\ before = [fields |-> origin_fields, objs |-> fieldObjs,
                 config |-> origin_config]
    /\ last = NoCall
    /\ PipesIdle /\ ConnectIdle /\ OptIdle

NextDecompose ==
    /\ \/ Decompose
       \/ FilterCall
       \/ RenameCall
       \/ MutateField
       \/ SetConfig
    /\ UNCHANGED <<pipeVars, connectVars, optVars>>

SpecDecompose == InitDecompose /\ [][NextDecompose]_vars

\* ---- pipelines ----
InitPipes == FieldsIdle /\ PipesIdle /\ ConnectIdle /\ OptIdle

NextPipes ==
    /\ \/ NewPipe
       \/ ThenStep
       \/ ThenPipe
       \/ Process
    /\ UNCHANGED <<fieldVars, connectVars, optVars>>

SpecPipes == InitPipes /\ [][NextPipes]_vars

\* ---- ConnectVariant, one call at a time ----
InitConnect == FieldsIdle /\ PipesIdle /\ ConnectIdle /\ OptIdle

NextConnect ==
    /\ Connect
    /\ UNCHANGED <<fieldVars, pipeVars, optVars>>

SpecConnect == InitConnect /\ [][NextConnect]_vars

\* ---- ConnectVariant, two calls in two threads ----
InitThreads == FieldsIdle /\ PipesIdle /\ ConnectIdle /\ OptIdle

NextThreads ==
    /\ \E t \in Threads : Begin(t) \/ StepThread(t)
    /\ UNCHANGED <<fieldVars, pipeVars, optVars>>

SpecThreads == InitThreads /\ [][NextThreads]_vars

\* ---- MakeOptional.transform applied twice ----
InitOpt ==
    /\ mo_in \in FieldDatas
    /\ mo_excl \in SUBSET Names
    /\ mo_once = mo_in
    /\ mo_twice = mo_in
    /\ mo_pc = 0
    /\ FieldsIdle /\ PipesIdle /\ ConnectIdle

NextOpt ==
    /\ \/ TransformOnce
       \/ TransformTwice
    /\ UNCHANGED <<fieldVars, pipeVars, connectVars>>

SpecOpt == InitOpt /\ [][NextOpt]_vars

(***************************************************************************)
(* Properties                                                              *)
(***************************************************************************)
\* The fields a Filter configured as in call record c is meant to keep
FilterKeeps(c, name) ==
    IF c.mode = "include_only" THEN name \in c.fset ELSE name \notin c.fset

\* C1: a Filter call does not raise and returns the descriptor with exactly
\* the fields it is meant to keep, in their original order
C1_FilterKeepsExactly ==
    [][last'.op = "Filter" =>
         /\ last'.raised = "none"
         /\ dm'.model_fields =
              SelectSeq(dm.model_fields, LAMBDA e : FilterKeeps(last', e.k))]_vars

\* Field i of the descriptor is not explicitly renamed by the Rename of call
\* record c: its name is not a key of the mapping, or it is renamed to itself
NotRenamed(c, fields, i) ==
    \/ c.mode = "mapping" /\ fields[i].k \notin c.mkeys
    \/ c.newnames[i] = fields[i].k

\* C2: every field a Rename call does not explicitly rename is in the result
\* under its original name, with its original FieldInfo, at its position
C2_RenameKeepsOthers ==
    [][last'.op = "Rename" =>
         \A i \in DOMAIN dm.model_fields :
            NotRenamed(last', dm.model_fields, i) =>
               /\ i \in DOMAIN dm'.model_fields
               /\ dm'.model_fields[i] = dm.model_fields[i]]_vars

\* Two distinct fields are given the same target name
Collides(names) == \E i, j \in DOMAIN names : i # j /\ names[i] = names[j]

\* C3: a Rename call that gives two fields the same name raises, and one
\* that returns normally returns as many fields as it was given
C3_RenameNoSilentOverwrite ==
    [][last'.op = "Rename" =>
         /\ Collides(last'.newnames) => last'.raised # "none"
         /\ last'.raised = "none" =>
               Len(dm'.model_fields) = Len(dm.model_fields)]_vars

\* The registry of origin o as the expression o._variants finds it
Registry(o) == Lookup(attrs, o, "_variants")

\* C4: after ConnectVariant(attach_directly=True) ran on a Built context, the
\* origin's registry is a dict holding the built type under the variant name
\* and the alias attribute refers to the same type
C4_RegistryAndAlias ==
    (clast.pc = "done" /\ clast.variant \in VariantTypes /\ clast.attach_directly)
    => /\ Registry(clast.origin).kind = "dict"
       /\ dicts[Registry(clast.origin).dict][clast.name] = clast.variant
       /\ Lookup(attrs, clast.origin, AliasOf(clast.name)) = TypeRef(clast.variant)

\* C5: when a call connects a second type under the name and origin of the
\* call before it, the registry entry is the second type and neither the
\* registry entry nor the alias for the name still refers to the first type
\* (stated for the names whose alias is an attribute of its own; the name
\* whose alias is the registry attribute is the case of C4)
C5_LastWriteWins ==
    [][(/\ ncalls' = ncalls + 1
        /\ AliasOf(clast.name) # "_variants"
        /\ clast.pc = "done" /\ clast.raised = "none"
        /\ clast'.raised = "none"
        /\ clast.variant \in VariantTypes /\ clast'.variant \in VariantTypes
        /\ clast'.origin = clast.origin /\ clast'.name = clast.name
        /\ clast'.variant # clast.variant)
       => /\ Lookup(attrs', clast.origin, "_variants").kind = "dict"
          /\ dicts'[Lookup(attrs', clast.origin, "_variants").dict][clast.name]
                = clast'.variant
          /\ Lookup(attrs', clast.origin, AliasOf(clast.name))
                # TypeRef(clast.variant)]_vars

\* C6: once two concurrent calls for one origin with different variant names
\* have both returned, the origin's registry holds both variants
C6_NoLostUpdate ==
    (/\ \A t \in Threads : thr[t].pc = "done" /\ thr[t].raised = "none"
     /\ thr[1].origin = thr[2].origin
     /\ thr[1].name # thr[2].name)
    => /\ Registry(thr[1].origin).kind = "dict"
       /\ \A t \in Threads :
             dicts[Registry(thr[1].origin).dict][thr[t].name] = thr[t].variant

\* C7: a ConnectVariant call on a Decomposed context raises ValueError and
\* changes neither the origin's attributes, nor a registry, nor a variant
C7_DecomposedRejected ==
    [][(ncalls' = ncalls + 1 /\ clast'.variant = DecomposedObj)
       => /\ clast'.raised = "ValueError"
          /\ attrs' = attrs
          /\ dicts' = dicts
          /\ vroot' = vroot]_vars

\* A call on a Decomposed context was made on an origin that already has a
\* registry with an entry, and it raised
C7_Witness ==
    /\ clast.variant = DecomposedObj
    /\ clast.pc = "done"
    /\ clast.raised = "ValueError"
    /\ Registry(clast.origin).kind = "dict"
    /\ \E n \in VariantNames : dicts[Registry(clast.origin).dict][n] # None

\* The origin's field metadata: its field dict and the FieldInfo objects it
\* refers to
OriginMetadata(fields, objs) ==
    [i \in DOMAIN fields |-> [k |-> fields[i].k, info |-> objs[fields[i].v]]]

\* C8: after decompose, whatever is done to the descriptor, the origin's
\* field metadata and config are what they were when decompose ran
C8_OriginUntouched ==
    dm.state = "decomposed" =>
       /\ OriginMetadata(origin_fields, fieldObjs)
            = OriginMetadata(before.fields, before.objs)
       /\ origin_config = before.config

\* The steps the caller put into pipeline p, in the order they were added; a
\* pipeline that was added stands for its own steps
RECURSIVE StepsAdded(_, _)
RECURSIVE StepsOfItems(_, _, _)
StepsOfItems(its, seq, i) ==
    IF i > Len(seq) THEN <<>>
    ELSE (IF seq[i].kind = "step" THEN <<seq[i].step>>
          ELSE StepsAdded(its, seq[i].id)) \o StepsOfItems(its, seq, i + 1)
StepsAdded(its, p) ==
    (IF pipes[p].step # None THEN <<pipes[p].step>> ELSE <<>>)
       \o StepsOfItems(its, its[p], 1)

\* Pipeline p was not added to another pipeline
TopLevel(p) == \A r \in roots \ {p} : p \notin Mentions(items, r)

\* C9: process on a pipeline built by a chain of then calls runs exactly the
\* steps that were added to it, once each, in the order they were added, and
\* returns the last one's result
C9_ProcessInOrder ==
    (presult.op = "process" /\ TopLevel(presult.pipe)) =>
       /\ presult.raised = "none"
       /\ presult.out = StepsAdded(items, presult.pipe)

\* C10: applying MakeOptional.transform twice gives what applying it once
\* gives, and a field that is excluded or already optional comes back as is
C10_MakeOptionalIdempotent ==
    /\ mo_pc = 2 => mo_twice = mo_once
    /\ (mo_pc >= 1 /\ (mo_in.name \in mo_excl \/ ~is_required(mo_in.field_info)))
          => mo_once = mo_in

\* A required field that is not excluded was made optional, and the
\* transformer was applied to the result again
C10_Witness ==
    /\ mo_pc = 2
    /\ mo_in.name \notin mo_excl
    /\ is_required(mo_in.field_info)
    /\ mo_once # mo_in
    /\ ~is_required(mo_once.field_info)

\* The constructor of the last call raised / returned
CtorRaised == last.op \in {"Filter.__init__", "Rename.__init__"}
CtorReturned == last.op \in {"Filter", "Rename"}

StepsRun(h, r) == VariantPipe_process(h, r, <<>>, {})

\* C12: then changes only the pipeline it is called on: after p.then(x),
\* every other pipeline that was not built from p, a pipeline q that was
\* added to p before included, still runs exactly the steps it ran before
C12_ThenLeavesOthers ==
    [][presult'.op = "then" =>
          \A r \in roots \ {presult'.pipe} :
             presult'.pipe \notin Mentions(items, r) =>
                StepsRun(pipes', r) = StepsRun(pipes, r)]_vars

\* The registry attribute origin o holds itself, inherited ones left out
OwnRegistry(a, o) == a[o]["_variants"]

\* C13: a ConnectVariant call for origin A that returns normally leaves the
\* registry of every other origin B as it was, the same dict object with
\* the same entries, also when A is a subclass of B
C13_RegistryPerOrigin ==
    [][(ncalls' = ncalls + 1 /\ clast'.raised = "none") =>
          \A B \in Origins \ {clast'.origin} :
             OwnRegistry(attrs, B).kind = "dict" =>
                /\ OwnRegistry(attrs', B) = OwnRegistry(attrs, B)
                /\ dicts'[OwnRegistry(attrs, B).dict]
                      = dicts[OwnRegistry(attrs, B).dict]]_vars

====
